---- MODULE Spec2Model ----
(* DeMark sequential counting (compute_dm_signals) and the timeframe       *)
(* scanner (scan_timeframe, load_or_fetch_price_data) of main.py.           *)
(* Arrays are functions over 0..length-1, as the Python lists they model;   *)
(* a DataFrame is [columns, rows], rows in chronological order; dates are   *)
(* day numbers counted from 1970-01-01; a ticker identifier is modelled by  *)
(* its rank in string order; a dict is the sequence of its items.           *)
EXTENDS Integers, Sequences, FiniteSets, TLC

VARIABLES
  pc,          \* "input"/"done" around compute_dm_signals, "start"/"returned" around scan_timeframe
  \* ---- compute_dm_signals applied to one series ----
  df,          \* the frame handed to compute_dm_signals
  TD, TS,      \* run-length counters (main.py 30-37)
  TDUp, TDDn,  \* counters minus reset offset (main.py 45-47)
  flags,       \* the returned tuple (DM9Top, DM13Top, DM9Bot, DM13Bot)
  \* ---- scan_timeframe ----
  today,       \* datetime.utcnow().date()
  timeframe,   \* [label, interval] as main() passes them
  cache_file,  \* content of price_cache_<label>_<today>.pkl, or NoFile
  n_tickers,   \* len(tickers) of the last call (printed at main.py 92)
  price_data,  \* what load_or_fetch_price_data returned to the last call
  appended,    \* the two result lists as the loop left them, before the sorts
  results,     \* what the last call returned
  calls,       \* the (ticker, df) pairs compute_dm_signals was called with (main.py 113)
  skipped      \* the tickers logged by the except clause (main.py 124)

sigvars == <<df, TD, TS, TDUp, TDDn, flags>>
scanvars == <<today, timeframe, cache_file, n_tickers, price_data, appended, results,
              calls, skipped>>
vars == <<pc, sigvars, scanvars>>

(* ------------------------------------------------------------------ *)
(* Program constants                                                    *)
(* ------------------------------------------------------------------ *)
Lag == 4
MinHistory == 20
Nine == 9
Thirteen == 13
batch_size == 50

(* ------------------------------------------------------------------ *)
(* Bounds of the input space                                            *)
(* ------------------------------------------------------------------ *)
MaxBars == 22      \* longest series handed to compute_dm_signals
MaxDelta == 2      \* largest bar-to-bar rise of a generated price path (falls are by 1)
BaseClose == 10    \* first close of a generated price path
NumTickers == 2    \* size of the ticker universe
MaxDay == 11       \* latest day number 'today' is drawn from

Min(a, b) == IF a < b THEN a ELSE b

(* ------------------------------------------------------------------ *)
(* compute_dm_signals                                                   *)
(* ------------------------------------------------------------------ *)
\* df["close"].values : the closes as an array indexed from 0
CloseValues(frame) ==
  [i \in 0..(Len(frame.rows) - 1) |-> frame.rows[i + 1].close]

Zeros(length) == [i \in 0..(length - 1) |-> 0]

\* close[i] > close[i - 4]
Up(close, i) == close[i] > close[i - Lag]

\* close[i] < close[i - 4]
DownFromLastBar(close, i) == close[i] < close[i - 1]
Down(close, i) == close[i] < close[i - Lag]

\* one step of a run-length counter: prev + 1 if the comparison holds else 0
RunStepDecaying(prev, hit) == IF hit THEN prev + 1 ELSE IF prev > 0 THEN prev - 1 ELSE 0
RunStep(prev, hit) == IF hit THEN prev + 1 ELSE 0

\* for i in range(4, length): TD[i] = ... ; TS[i] = ...
RECURSIVE CountLoop(_, _, _, _, _)
CountLoop(close, length, td, ts, i) ==
  IF i >= length THEN [TD |-> td, TS |-> ts]
  ELSE CountLoop(close, length,
         [td EXCEPT ![i] = RunStep(td[i - 1], Up(close, i))],
         [ts EXCEPT ![i] = RunStep(ts[i - 1], Down(close, i))],
         i + 1)

\* TD = [0] * length ; TS = [0] * length ; the loop from index 4
CountRunsFromFive(close, length) ==
  CountLoop(close, length, Zeros(length), Zeros(length), Lag + 1)
CountRuns(close, length) ==
  CountLoop(close, length, Zeros(length), Zeros(length), Lag)

\* for j in range(idx - 1, 0, -1): if arr[j] < arr[j-1]: return arr[j]
RECURSIVE ResetScan(_, _)
ResetScan(arr, j) ==
  IF j < 1 THEN 0
  ELSE IF arr[j] < arr[j - 1] THEN arr[j]
  ELSE ResetScan(arr, j - 1)

RECURSIVE RiseScan(_, _)
RiseScan(arr, j) ==
  IF j < 1 THEN 0
  ELSE IF arr[j] > arr[j - 1] THEN arr[j]
  ELSE RiseScan(arr, j - 1)

valuewhen_rise(arr, idx) == RiseScan(arr, idx - 1)
valuewhen_reset(arr, idx) == ResetScan(arr, idx - 1)

\* for i in range(4, length): TDUp[i] = TD[i] - valuewhen_reset(TD, i)
SinceReset(arr, length) ==
  [i \in 0..(length - 1) |->
     IF i >= Lag THEN arr[i] - valuewhen_reset(arr, i) ELSE 0]

AllFalse == [DM9Top |-> FALSE, DM13Top |-> FALSE, DM9Bot |-> FALSE, DM13Bot |-> FALSE]

\* DM9Top = TDUp[-1] == 9 ; DM13Top = TDUp[-1] == 13 ; and the two Bot flags
FlagsAtLeast(up_last, dn_last) ==
  [DM9Top  |-> up_last >= Nine, DM13Top |-> up_last >= Thirteen,
   DM9Bot  |-> dn_last >= Nine, DM13Bot |-> dn_last >= Thirteen]
Flags(up_last, dn_last) ==
  [DM9Top  |-> up_last = Nine, DM13Top |-> up_last = Thirteen,
   DM9Bot  |-> dn_last = Nine, DM13Bot |-> dn_last = Thirteen]

compute_dm_signals(frame) ==
  IF "close" \notin frame.columns
  THEN [raised |-> TRUE, TD |-> <<>>, TS |-> <<>>, TDUp |-> <<>>, TDDn |-> <<>>,
        flags |-> AllFalse]
  ELSE
  LET close == CloseValues(frame)
      length == Len(frame.rows)
  IN IF length < MinHistory
     THEN [raised |-> FALSE, TD |-> <<>>, TS |-> <<>>, TDUp |-> <<>>, TDDn |-> <<>>,
           flags |-> AllFalse]
     ELSE
       LET cnt == CountRuns(close, length)
           up  == SinceReset(cnt.TD, length)
           dn  == SinceReset(cnt.TS, length)
       IN [raised |-> FALSE, TD |-> cnt.TD, TS |-> cnt.TS, TDUp |-> up, TDDn |-> dn,
           flags |-> Flags(up[length - 1], dn[length - 1])]

(* ------------------------------------------------------------------ *)
(* Dates                                                                *)
(* ------------------------------------------------------------------ *)
\* date.weekday(): Monday is 0; day number 0 (1970-01-01) was a Thursday
weekday(d) == (d + 3) % 7

\* today - timedelta(days=today.weekday())
WeekStart(d) == d - weekday(d)

(* ------------------------------------------------------------------ *)
(* Frames the price provider can return                                 *)
(* ------------------------------------------------------------------ *)
NoFile == [exists |-> FALSE, data |-> <<>>]
\* a local variable is <<>> while unbound, <<value>> once assigned
Unbound == <<>>
Tickers == 1..NumTickers
Timeframes == {[label |-> "1D", interval |-> "1d"], [label |-> "1W", interval |-> "1wk"]}
\* day 10 is Sunday 1970-01-11, day 11 the Monday after it
Days == 10..MaxDay

BarDays(interval) == IF interval = "1wk" THEN 7 ELSE 1
NBars == MinHistory + 1

\* n bars ending on last_date: flat closes, then `run` bars moving by dir each
Ramp(cols, n, run, dir, last_date, interval) ==
  [columns |-> cols,
   rows |-> [k \in 1..n |->
      [date |-> last_date - BarDays(interval) * (n - k),
       close |-> BaseClose + NBars + (IF k > n - run THEN dir * (k - (n - run)) ELSE 0)]]]

EmptyFrame == [columns |-> {"date", "close"}, rows |-> <<>>]

Frames(day, interval) ==
  { EmptyFrame,
    Ramp({"date", "close"}, NBars, Nine, 1, WeekStart(day) - 1, interval),
    Ramp({"Date", "Close"}, NBars, Thirteen + 1, 0 - 1, day, interval),
    Ramp({"date", "volume"}, NBars, Nine, 1, WeekStart(day) - 1, interval),
    Ramp({"close", "volume"}, NBars, Thirteen, 0 - 1, WeekStart(day) - 1, interval) }

(* ------------------------------------------------------------------ *)
(* load_or_fetch_price_data                                             *)
(* ------------------------------------------------------------------ *)
\* a dict as the sequence of its items <<key, value>>, in insertion order
Keys(d) == {d[k][1] : k \in 1..Len(d)}

\* d[key] = value : a known key keeps its place
DictSet(d, key, value) ==
  IF key \in Keys(d)
  THEN [k \in 1..Len(d) |-> IF d[k][1] = key THEN <<key, value>> ELSE d[k]]
  ELSE Append(d, <<key, value>>)

\* for ticker in batch: if (ticker,) in batch_data.index: all_data[ticker] = ...
RECURSIVE BatchLoop(_, _, _, _)
BatchLoop(all_data, batch, k, history) ==
  IF k > Len(batch) THEN all_data
  ELSE BatchLoop(
         IF batch[k] \in DOMAIN history
         THEN DictSet(all_data, batch[k], history[batch[k]]) ELSE all_data,
         batch, k + 1, history)

\* for i in range(0, len(tickers), batch_size): ... (i counted from 0)
RECURSIVE FetchLoop(_, _, _, _, _)
FetchLoop(all_data, tickers, i, history, is_frame) ==
  IF i >= Len(tickers) THEN all_data
  ELSE LET batch == SubSeq(tickers, i + 1, Min(i + batch_size, Len(tickers)))
       IN FetchLoop(
            IF is_frame[i \div batch_size]
            THEN BatchLoop(all_data, batch, 1, history) ELSE all_data,
            tickers, i + batch_size, history, is_frame)

\* returns the data and the content of the cache file afterwards
load_or_fetch_price_data(file, tickers, history, is_frame) ==
  IF file.exists
  THEN [data |-> file.data, file |-> file]
  ELSE LET all_data == FetchLoop(<<>>, tickers, 0, history, is_frame)
       IN [data |-> all_data, file |-> [exists |-> TRUE, data |-> all_data]]

(* ------------------------------------------------------------------ *)
(* scan_timeframe                                                       *)
(* ------------------------------------------------------------------ *)
\* c.lower() on the column names the providers use
Lower(c) ==
  CASE c = "Date" -> "date"
    [] c = "Close" -> "close"
    [] OTHER -> c

\* df.columns = [c.lower() for c in df.columns]
LowerColumns(raw) == [raw EXCEPT !.columns = {Lower(c) : c \in raw.columns}]

\* df.iloc[:-1]
DropLast(rows) == SubSeq(rows, 1, Len(rows) - 1)

\* last_date >= today - timedelta(days=today.weekday())
InCurrentWeekStrict(last_date, day) == last_date > WeekStart(day)
InCurrentWeek(last_date, day) == last_date >= WeekStart(day)

\* the loop state: the two result lists, the local last_date, and the two logs
LoopStart ==
  [Tops |-> <<>>, Bottoms |-> <<>>, last_date |-> Unbound,
   calls |-> <<>>, skipped |-> <<>>]

\* except Exception: print(...) -- the loop goes on with the next ticker
OnExceptionDiscarding(st, ticker) ==
  [st EXCEPT !.skipped = Append(@, ticker), !.Tops = <<>>, !.Bottoms = <<>>]
OnException(st, ticker) == [st EXCEPT !.skipped = Append(@, ticker)]

\* lines 113-121 : the call and the two appends
Signal(st, ticker, frame) ==
  LET r == compute_dm_signals(frame)
      called == [st EXCEPT !.calls = Append(@, <<ticker, frame>>)]
      f == r.flags
      tops == IF f.DM9Top \/ f.DM13Top
              THEN Append(st.Tops, <<ticker, IF f.DM13Top THEN "DM13 Top" ELSE "DM9 Top">>)
              ELSE st.Tops
      bots == IF f.DM9Bot \/ f.DM13Bot
              THEN Append(st.Bottoms, <<ticker, IF f.DM13Bot THEN "DM13 Bot" ELSE "DM9 Bot">>)
              ELSE st.Bottoms
  IN IF r.raised THEN OnException(called, ticker)
     ELSE [called EXCEPT !.Tops = tops, !.Bottoms = bots]

\* lines 109-111 : the trim, whatever the interval
Trim(st, ticker, frame, day) ==
  IF st.last_date = Unbound THEN OnException(st, ticker)
  ELSE Signal(st, ticker,
              [frame EXCEPT !.rows = IF InCurrentWeek(st.last_date[1], day)
                                     THEN DropLast(@) ELSE @])

\* one iteration of the loop of lines 97-124
ProcessTicker(st, ticker, raw, interval, day) ==
  IF Len(raw.rows) = 0 THEN st
  ELSE LET frame == LowerColumns(raw)
       IN IF interval = "1wk" /\ "date" \notin frame.columns
          THEN OnException(st, ticker)
          ELSE Trim([st EXCEPT !.last_date =
                       IF interval = "1wk"
                       THEN <<frame.rows[Len(frame.rows)].date>> ELSE @],
                    ticker, frame, day)

RECURSIVE TickerLoop(_, _, _, _, _)
TickerLoop(st, data, k, interval, day) ==
  IF k > Len(data) THEN st
  ELSE TickerLoop(ProcessTicker(st, data[k][1], data[k][2], interval, day),
                  data, k + 1, interval, day)

\* sorted(hits, key=lambda x: x[0]) : stable, ascending by ticker
RECURSIVE InsertDescending(_, _)
InsertDescending(sorted, hit) ==
  IF sorted = <<>> THEN <<hit>>
  ELSE IF sorted[Len(sorted)][1] >= hit[1] THEN Append(sorted, hit)
  ELSE Append(InsertDescending(SubSeq(sorted, 1, Len(sorted) - 1), hit), sorted[Len(sorted)])

RECURSIVE Insert(_, _)
Insert(sorted, hit) ==
  IF sorted = <<>> THEN <<hit>>
  ELSE IF sorted[Len(sorted)][1] <= hit[1] THEN Append(sorted, hit)
  ELSE Append(Insert(SubSeq(sorted, 1, Len(sorted) - 1), hit), sorted[Len(sorted)])

RECURSIVE SortByTicker(_)
SortByTicker(hits) ==
  IF hits = <<>> THEN <<>>
  ELSE Insert(SortByTicker(SubSeq(hits, 1, Len(hits) - 1)), hits[Len(hits)])

\* the loop and the two sorts, on the data load_or_fetch_price_data returned
ScanData(data, interval, day) ==
  LET st == TickerLoop(LoopStart, data, 1, interval, day)
  IN [results |-> [Tops |-> SortByTicker(st.Tops), Bottoms |-> SortByTicker(st.Bottoms)],
      appended |-> [Tops |-> st.Tops, Bottoms |-> st.Bottoms],
      calls |-> st.calls, skipped |-> st.skipped]

scan_timeframe(file, tickers, tf, day, history, is_frame) ==
  LET got == load_or_fetch_price_data(file, tickers, history, is_frame)
      out == ScanData(got.data, tf.interval, day)
  IN [file |-> got.file, data |-> got.data, appended |-> out.appended,
      results |-> out.results, calls |-> out.calls, skipped |-> out.skipped]

(* ------------------------------------------------------------------ *)
(* Specification of the scanner                                         *)
(* ------------------------------------------------------------------ *)
EmptyResults == [Tops |-> <<>>, Bottoms |-> <<>>]

\* the ticker lists the CSV can hold: any order, a ticker possibly twice
RECURSIVE ListsOfLen(_)
ListsOfLen(n) ==
  IF n = 0 THEN {<<>>}
  ELSE {Append(l, t) : l \in ListsOfLen(n - 1), t \in Tickers}

TickerLists == UNION {ListsOfLen(n) : n \in 0..NumTickers}

ScanIdle ==
  /\ cache_file = NoFile
  /\ n_tickers = 0
  /\ price_data = <<>>
  /\ appended = EmptyResults
  /\ results = EmptyResults
  /\ calls = <<>>
  /\ skipped = <<>>

Init ==
  /\ pc = "start"
  /\ today \in Days
  /\ timeframe \in Timeframes
  /\ ScanIdle
  /\ df = EmptyFrame
  /\ TD = <<>> /\ TS = <<>> /\ TDUp = <<>> /\ TDDn = <<>>
  /\ flags = AllFalse

Returned(tickers, r) ==
  /\ pc' = "returned"
  /\ cache_file' = r.file
  /\ n_tickers' = Len(tickers)
  /\ price_data' = r.data
  /\ appended' = r.appended
  /\ results' = r.results
  /\ calls' = r.calls
  /\ skipped' = r.skipped
  /\ UNCHANGED <<today, timeframe, sigvars>>

NoHistory == [t \in {} |-> EmptyFrame]
NoBatches == [b \in {} |-> TRUE]

\* scan_timeframe when the cache file of the day is missing: the provider is asked
ScanFetch ==
  /\ ~cache_file.exists
  /\ \E tickers \in TickerLists :
       \E listed \in SUBSET {tickers[k] : k \in 1..Len(tickers)} :
       \E history \in [listed -> Frames(today, timeframe.interval)] :
         \E is_frame \in [0..((Len(tickers) + batch_size - 1) \div batch_size - 1) -> BOOLEAN] :
           \E r \in {scan_timeframe(cache_file, tickers, timeframe, today, history, is_frame)} :
             Returned(tickers, r)

\* scan_timeframe when the cache file of the day exists: the list is read by len() only
ScanCached ==
  /\ cache_file.exists
  /\ \E n \in 0..NumTickers :
       \E tickers \in {[k \in 1..n |-> k]} :
         \E r \in {scan_timeframe(cache_file, tickers, timeframe, today, NoHistory, NoBatches)} :
           Returned(tickers, r)

Next == ScanFetch \/ ScanCached

Spec == Init /\ [][Next]_vars

(* ------------------------------------------------------------------ *)
(* Specification of compute_dm_signals over generated price paths       *)
(* ------------------------------------------------------------------ *)
AllColumns == {"date", "close"}

\* a price path of n bars: three stretches of constant bar-to-bar move a, b, c
\* that change at bars c1 <= c2
PricePath(n, c1, c2, a, b, c) ==
  [columns |-> AllColumns,
   rows |-> [k \in 1..n |->
      LET i == k - 1 IN
      [date |-> i,
       close |-> BaseClose + a * Min(i, c1) + b * (Min(i, c2) - Min(i, c1))
                           + c * (i - Min(i, c2))]]]

Lengths == {0, Lag, MinHistory - 1} \cup (MinHistory..MaxBars)
Deltas == (0 - 1)..MaxDelta

\* the closes 10, 11, ..., 33
Closes10To33 ==
  [columns |-> AllColumns,
   rows |-> [k \in 1..24 |-> [date |-> k - 1, close |-> 9 + k]]]

InitSignals ==
  /\ pc = "input"
  /\ \/ \E n \in Lengths : \E c1 \in 0..n : \E c2 \in c1..n :
          \E a \in Deltas, b \in Deltas, c \in Deltas :
            df = PricePath(n, c1, c2, a, b, c)
     \/ df = Closes10To33
  /\ TD = <<>> /\ TS = <<>> /\ TDUp = <<>> /\ TDDn = <<>>
  /\ flags = AllFalse
  /\ today = 0
  /\ timeframe = [label |-> "1D", interval |-> "1d"]
  /\ ScanIdle

ComputeDmSignals ==
  /\ pc = "input"
  /\ \E r \in {compute_dm_signals(df)} :
       /\ TD' = r.TD /\ TS' = r.TS /\ TDUp' = r.TDUp /\ TDDn' = r.TDDn
       /\ flags' = r.flags
  /\ pc' = "done"
  /\ UNCHANGED <<df, scanvars>>

NextSignals == ComputeDmSignals

SpecSignals == InitSignals /\ [][NextSignals]_vars

(* ================================================================== *)
(* Properties of compute_dm_signals (specification SpecSignals)          *)
(* ================================================================== *)
Length == Len(df.rows)
Last == Length - 1
Computed == pc = "done" /\ Length >= MinHistory

\* the run at bar i counted straight from the closes: how many bars in a row,
\* ending at i, compare as `dir` (1: higher, -1: lower) with the bar four before
RECURSIVE RunAt(_, _, _)
RunAt(close, i, dir) ==
  IF i < Lag THEN 0
  ELSE IF (dir = 1 /\ close[i] > close[i - Lag]) \/ (dir = 0 - 1 /\ close[i] < close[i - Lag])
       THEN 1 + RunAt(close, i - 1, dir)
       ELSE 0

UpRunAtLast == RunAt(CloseValues(df), Last, 1)
DownRunAtLast == RunAt(CloseValues(df), Last, 0 - 1)

OnlyFlag(name) ==
  /\ flags.DM9Top = (name = "DM9Top")
  /\ flags.DM13Top = (name = "DM13Top")
  /\ flags.DM9Bot = (name = "DM9Bot")
  /\ flags.DM13Bot = (name = "DM13Bot")

\* C2: threshold exactness. For a series of at least 20 bars, an up-run of exactly 9
\* at the final bar gives NineTop alone, of exactly 13 gives ThirteenTop and not
\* NineTop, any other run gives neither Top flag; the same for the down-run and Bot.
C2_ThresholdExactness ==
  Computed =>
    /\ UpRunAtLast = Nine => OnlyFlag("DM9Top")
    /\ UpRunAtLast = Thirteen => flags.DM13Top /\ ~flags.DM9Top
    /\ UpRunAtLast \notin {Nine, Thirteen} => ~flags.DM9Top /\ ~flags.DM13Top
    /\ DownRunAtLast = Nine => OnlyFlag("DM9Bot")
    /\ DownRunAtLast = Thirteen => flags.DM13Bot /\ ~flags.DM9Bot
    /\ DownRunAtLast \notin {Nine, Thirteen} => ~flags.DM9Bot /\ ~flags.DM13Bot

\* an up-run of exactly 9 at the last bar that follows an earlier, reset, up-run
C2_NineAfterReset ==
  /\ Computed
  /\ UpRunAtLast = Nine
  /\ flags.DM9Top
  /\ \E j \in Lag..(Last - Nine - 1) : TD[j] > 0 /\ TD[j + 1] = 0

\* C6: the Top and Bot families exclude each other: at no index are TD and TS both
\* positive, no result has a Top flag and a Bot flag, and at most one flag is true.
C6_TopBotExclusive ==
  Computed =>
    /\ \A i \in 0..Last : (TD[i] > 0 => TS[i] = 0) /\ (TS[i] > 0 => TD[i] = 0)
    /\ ~((flags.DM9Top \/ flags.DM13Top) /\ (flags.DM9Bot \/ flags.DM13Bot))
    /\ Cardinality({n \in {"DM9Top", "DM13Top", "DM9Bot", "DM13Bot"} : flags[n]}) <= 1

\* a series with an up-run and, later, a down-run of 13 at its last bar
C6_BothDirectionsSeen ==
  /\ Computed
  /\ flags.DM13Bot
  /\ \E i \in 0..Last : TD[i] > 0

StrictlyIncreasing(close, length) ==
  \A i \in 1..(length - 1) : close[i - 1] < close[i]

\* C8, as the specification states it: on the closes 10..33 TD never resets from
\* index 4 on, TDUp[23] is 19 and all four flags are false.
C8_TDUpIs19 ==
  (pc = "done" /\ df = Closes10To33) =>
    /\ \A i \in Lag..23 : TD[i] = TD[i - 1] + 1
    /\ TDUp[23] = 19
    /\ flags = AllFalse

\* C8, amended: on the closes 10..33 TD never resets from index 4 on, TDUp[23] is
\* 20 (= 24 - 4) and all four flags are false.
C8_TDUpIs20 ==
  (pc = "done" /\ df = Closes10To33) =>
    /\ \A i \in Lag..23 : TD[i] = TD[i - 1] + 1
    /\ TDUp[23] = 20
    /\ flags = AllFalse

\* compute_dm_signals has returned on the closes 10..33
C8_ScenarioComputed ==
  /\ pc = "done"
  /\ df = Closes10To33
  /\ TD[23] = 20

\* C9: for strictly increasing closes of length n >= 20, TD grows by one at every
\* index from 4 to n-1, TS is 0 everywhere and TDUp at the last index is n - 4.
C9_StrictlyIncreasing ==
  (Computed /\ StrictlyIncreasing(CloseValues(df), Length)) =>
    /\ \A i \in Lag..Last : TD[i] = TD[i - 1] + 1
    /\ \A i \in 0..Last : TS[i] = 0
    /\ TDUp[Last] = Length - Lag

\* a strictly increasing series whose bar-to-bar rise is not constant
C9_UnevenRise ==
  /\ Computed
  /\ StrictlyIncreasing(CloseValues(df), Length)
  /\ \E i \in 2..Last :
       df.rows[i + 1].close - df.rows[i].close # df.rows[i].close - df.rows[i - 1].close
  /\ TDUp[Last] = Length - Lag

\* C10: the reset offset is always zero: valuewhen_reset(TD, i) = 0 and
\* valuewhen_reset(TS, i) = 0 at every index i >= 4, so TDUp = TD and TDDn = TS at
\* every index and the flags are those of the plain run lengths TD[last], TS[last].
C10_OffsetIsZero ==
  Computed =>
    /\ \A i \in Lag..Last :
         /\ valuewhen_reset(TD, i) = 0 /\ valuewhen_reset(TS, i) = 0
         /\ TDUp[i] = TD[i] /\ TDDn[i] = TS[i]
    /\ \A i \in 0..(Lag - 1) : TDUp[i] = TD[i] /\ TDDn[i] = TS[i]
    /\ flags.DM9Top = (TD[Last] = Nine) /\ flags.DM13Top = (TD[Last] = Thirteen)
    /\ flags.DM9Bot = (TS[Last] = Nine) /\ flags.DM13Bot = (TS[Last] = Thirteen)

\* a series in which both counters drop before the last bar, so that the backward
\* scan of valuewhen_reset does find a drop
C10_DropsFound ==
  /\ Computed
  /\ \E j \in (Lag + 1)..(Last - 1) : TD[j] < TD[j - 1]
  /\ \E j \in (Lag + 1)..(Last - 1) : TS[j] < TS[j - 1]
  /\ TD[Last] > 0

(* ================================================================== *)
(* Properties of scan_timeframe (specification Spec)                     *)
(* ================================================================== *)
Returns == pc = "returned"
TickersOf(hits) == {hits[k][1] : k \in 1..Len(hits)}
HasTop(f) == f.DM9Top \/ f.DM13Top
HasBot(f) == f.DM9Bot \/ f.DM13Bot

\* C1: a Daily scan drops no bar: every ticker with a non-empty series (with its
\* closes) is in Tops exactly when the flags of its full series have a Top flag, and
\* in Bottoms exactly when they have a Bot flag.
C1_DailyUsesFullSeries ==
  (Returns /\ timeframe.interval = "1d") =>
    \A k \in 1..Len(price_data) :
      LET t == price_data[k][1]
          frame == LowerColumns(price_data[k][2])
      IN (Len(frame.rows) > 0 /\ "close" \in frame.columns) =>
           /\ HasTop(compute_dm_signals(frame).flags) <=> t \in TickersOf(results.Tops)
           /\ HasBot(compute_dm_signals(frame).flags) <=> t \in TickersOf(results.Bottoms)

\* C3: a ticker whose processing raised is in neither list, and the result is the
\* one the scan gives on the same data without the tickers that raised.
C3_FailureIsolation ==
  Returns =>
    LET failed == {skipped[k] : k \in 1..Len(skipped)}
        Passed(item) == item[1] \notin failed
    IN /\ failed \cap (TickersOf(results.Tops) \cup TickersOf(results.Bottoms)) = {}
       /\ results = ScanData(SelectSeq(price_data, Passed), timeframe.interval, today).results

\* a Weekly scan in which a ticker raised and a ticker processed before it and one
\* processed after it, or the only other one, hit
C3_FailureBesideHits ==
  /\ Returns
  /\ \E i \in 1..Len(price_data) : \E j \in 1..Len(price_data) :
       /\ i < j
       /\ price_data[i][1] \in TickersOf(results.Tops)
       /\ price_data[j][1] \in {skipped[k] : k \in 1..Len(skipped)}

\* C4: in a Weekly scan the frame handed to compute_dm_signals is the ticker's
\* series without its last bar if that bar's date is on or after the Monday of the
\* current week (today - today.weekday()), and the whole series otherwise.
C4_WeeklyTrim ==
  (Returns /\ timeframe.interval = "1wk") =>
    \A k \in 1..Len(price_data) :
      LET t == price_data[k][1]
          frame == LowerColumns(price_data[k][2])
          n == Len(frame.rows)
      IN (n > 0 /\ "date" \in frame.columns) =>
           /\ \E c \in 1..Len(calls) : calls[c][1] = t
           /\ \A c \in 1..Len(calls) : calls[c][1] = t =>
                calls[c][2].rows =
                  IF frame.rows[n].date >= today - weekday(today)
                  THEN SubSeq(frame.rows, 1, n - 1)
                  ELSE frame.rows

\* a Weekly scan of one series whose last bar is dated the Monday of the current
\* week, handed over without it, and one whose last bar is the day before, handed
\* over whole
C4_BothSidesOfMonday ==
  /\ Returns /\ timeframe.interval = "1wk"
  /\ \E k \in 1..Len(price_data) : \E c \in 1..Len(calls) :
       /\ calls[c][1] = price_data[k][1]
       /\ Len(price_data[k][2].rows) > 0
       /\ price_data[k][2].rows[Len(price_data[k][2].rows)].date = today - weekday(today)
       /\ Len(calls[c][2].rows) = Len(price_data[k][2].rows) - 1
  /\ \E k \in 1..Len(price_data) : \E c \in 1..Len(calls) :
       /\ calls[c][1] = price_data[k][1]
       /\ Len(price_data[k][2].rows) > 0
       /\ price_data[k][2].rows[Len(price_data[k][2].rows)].date = today - weekday(today) - 1
       /\ calls[c][2].rows = price_data[k][2].rows

\* C5: a call with an empty ticker list returns Tops = [] and Bottoms = [], whatever
\* the cache file of the day holds.
C5_ZeroTickersEmptyResult ==
  (Returns /\ n_tickers = 0) => results = EmptyResults

StrictlyAscending(hits) ==
  \A k \in 1..(Len(hits) - 1) : hits[k][1] < hits[k + 1][1]

SameHits(before, after) ==
  /\ Len(before) = Len(after)
  /\ \A k \in 1..Len(before) : \E j \in 1..Len(after) : after[j] = before[k]

\* C7: the returned Tops and Bottoms are each in strictly ascending ticker order,
\* and each holds every hit the loop appended, no more and no fewer.
C7_SortInvariant ==
  Returns =>
    /\ StrictlyAscending(results.Tops) /\ StrictlyAscending(results.Bottoms)
    /\ SameHits(appended.Tops, results.Tops)
    /\ SameHits(appended.Bottoms, results.Bottoms)

\* a scan whose loop appended two Tops out of ticker order
C7_AppendedOutOfOrder ==
  /\ Returns
  /\ Len(appended.Tops) >= 2
  /\ appended.Tops[1][1] > appended.Tops[2][1]
  /\ Len(results.Tops) >= 2

====
